---- MODULE Spec2Model ----
(***************************************************************************)
(* Commerce-Minorista ingestion benchmark.                                 *)
(*                                                                         *)
(*   src/sql/generator.py    generates the dataset, writes commerce_load.sql*)
(*   src/json/generator.py   generates the dataset, writes the two JSON    *)
(*                           document files                                *)
(*   src/ingest_benchmark.py main(): four timed load steps, then the CSV   *)
(*                                                                         *)
(* Spec     the data generation, the files, and one run of main().         *)
(* SpecSql  the SQL generator writing commerce_load.sql batch by batch.    *)
(* SpecMongo the two MongoDB loads on document files of several sizes.     *)
(* SpecSeed the sales loops of the two generators on one seeded stream.    *)
(***************************************************************************)
EXTENDS Integers, Sequences, FiniteSets, TLC

(***************************************************************************)
(* Configurable constants of the generators, scaled down (the source has   *)
(* 10, 100, 5, 25, 1000, 20000, 1, 10, 1000 and 2000).                     *)
(***************************************************************************)
CATEGORIES == 2
PRODUCTS == 2
STORES == 2
EMPLOYEES == 2
CUSTOMERS == 2
SALES == 2
MIN_LINES == 1
MAX_LINES == 1
BATCH_SIZE == 2
CHUNK == 2

\* Values of the attributes that no lookup reads (random.randint quantities,
\* random_date timestamps, random.choice(positions)): small input sets.
Quantities == {3}
Dates == {"d1"}
Positions == {"Cajero"}

VARIABLES
    \* --- generators: the relational dataset ---
    gpc,            \* position of the generator scripts
    products, stores, employees, customers, inventory, sales_hdr, sale_lines,
    \* --- files on disk ---
    sqlFile,        \* sql/commerce_load.sql: sequence of statements
    catalogJson,    \* json/stores_catalog.json: sequence of store documents
    salesJson,      \* json/sales_docs.json: sequence of sale documents
    csv,            \* ingest_times.csv: NoFile or a sequence of rows
    \* --- ingest_benchmark.main() ---
    pc,             \* the load step main() is at
    spc,            \* position inside that step
    results,        \* main's results list
    calls,          \* history: the load steps called, in call order
    returned,       \* history: <<step, duration>> as the timed wrapper returns
    clock,          \* time.perf_counter(), one tick per database operation
    t0,             \* the timed wrapper's start time
    dt_cat,         \* main's local: the duration of load_mongo_catalog
    \* --- PostgreSQL ---
    pg,             \* the two databases, by name
    conn,           \* psycopg2's status of the step's connection
    sent,           \* history: statements / rows sent in the current run
    lj,             \* locals of load_postgres_from_json
    \* --- MongoDB ---
    mongo,          \* the collections stores and sales of database commerce
    mchunk,         \* load_mongo_sales: the chunks inserted so far
    \* --- SQL generator writing its file (SpecSql) ---
    wpc, wdata, wit, wbatches, wfile, wsize,
    \* --- the two generator scripts run with the same seed (SpecSeed) ---
    seeded,         \* what random.seed and np.random.seed fix: the streams
    sqlgen,         \* sql/generator.py: state of random, sales, sale_lines
    jsongen         \* json/generator.py: state of random, sales_hdr, sale_lines

genVars == <<gpc, products, stores, employees, customers, inventory, sales_hdr, sale_lines>>
fileVars == <<sqlFile, catalogJson, salesJson, csv>>
mainVars == <<pc, spc, results, calls, returned, clock, t0, dt_cat>>
dbVars == <<pg, conn, sent, lj, mongo, mchunk>>
sqlgenVars == <<wpc, wdata, wit, wbatches, wfile, wsize>>
seedVars == <<seeded, sqlgen, jsongen>>
vars == <<genVars, fileVars, mainVars, dbVars, sqlgenVars, seedVars>>

(***************************************************************************)
(* Helpers                                                                 *)
(***************************************************************************)
Range(s) == {s[i] : i \in DOMAIN s}

Min(a, b) == IF a < b THEN a ELSE b

RECURSIVE SumSeq(_)
SumSeq(s) == IF s = <<>> THEN 0 ELSE Head(s) + SumSeq(Tail(s))

RECURSIVE Concat(_)
Concat(ss) == IF ss = <<>> THEN <<>> ELSE Head(ss) \o Concat(Tail(ss))

\* random.sample(population, k): the k-element selections without
\* replacement, in selection order.
Samples(population, k) ==
    {s \in [1..k -> Range(population)] : \A i, j \in 1..k : i # j => s[i] # s[j]}

\* A value of a Faker provider that is not "unique": a value returned before
\* or a new one.  labels is the sequence of values drawn so far.
FakerChoices(labels) == Range(labels) \cup {Cardinality(Range(labels)) + 1}

(***************************************************************************)
(* Dataset generation (both generator scripts run the same steps)          *)
(* Here the two files are written from one dataset; how each script reads  *)
(* the seeded stream in its sales loop is in SpecSeed.                      *)
(***************************************************************************)
\* fake.unique.word(): pairwise distinct names
categories ==
    [i \in 1..CATEGORIES |-> [category_id |-> i, name |-> <<"word", i>>]]

\* simple round-robin assignment
round_robin(employee_id) == (employee_id % STORES) + 1

\* the pick of a sale's employee among all employees
employees_of_any_store(store_id) == employees

employees_in_store(store_id) ==
    SelectSeq(employees, LAMBDA e : e.store_id = store_id)

GenProduct ==
    /\ gpc = "products"
    /\ \E category \in Range(categories) :
         LET i == Len(products) + 1 IN
         /\ products' = Append(products,
                [product_id |-> i, name |-> <<"catch_phrase", i>>,
                 price |-> 10 * i, category_id |-> category.category_id])
         /\ gpc' = IF i = PRODUCTS THEN "stores" ELSE "products"
    /\ UNCHANGED <<stores, employees, customers, inventory, sales_hdr, sale_lines>>
    /\ UNCHANGED <<fileVars, mainVars, dbVars, sqlgenVars, seedVars>>

\* fake.company(): the names drawn are pairwise distinct
GenStore ==
    /\ gpc = "stores"
    /\ LET i == Len(stores) + 1 IN
         /\ stores' = Append(stores,
                [store_id |-> i, name |-> <<"company", i>>, address |-> <<"address", i>>])
         /\ gpc' = IF i = STORES THEN "employees" ELSE "stores"
    /\ UNCHANGED <<products, employees, customers, inventory, sales_hdr, sale_lines>>
    /\ UNCHANGED <<fileVars, mainVars, dbVars, sqlgenVars, seedVars>>

GenEmployee ==
    /\ gpc = "employees"
    /\ \E k \in FakerChoices([j \in DOMAIN employees |-> employees[j].first_name[2]]),
          position \in Positions :
         LET i == Len(employees) + 1 IN
         /\ employees' = Append(employees,
                [employee_id |-> i, first_name |-> <<"first_name", k>>,
                 last_name |-> <<"last_name", k>>,
                 position |-> position,
                 store_id |-> round_robin(i)])
         /\ gpc' = IF i = EMPLOYEES THEN "customers" ELSE "employees"
    /\ UNCHANGED <<products, stores, customers, inventory, sales_hdr, sale_lines>>
    /\ UNCHANGED <<fileVars, mainVars, dbVars, sqlgenVars, seedVars>>

\* fake.email(): the addresses drawn are pairwise distinct
GenCustomer ==
    /\ gpc = "customers"
    /\ LET i == Len(customers) + 1 IN
         /\ customers' = Append(customers,
                [customer_id |-> i, first_name |-> <<"first_name", 100 + i>>,
                 last_name |-> <<"last_name", 100 + i>>, email |-> <<"email", i>>])
         /\ gpc' = IF i = CUSTOMERS THEN "inventory" ELSE "customers"
    /\ UNCHANGED <<products, stores, employees, inventory, sales_hdr, sale_lines>>
    /\ UNCHANGED <<fileVars, mainVars, dbVars, sqlgenVars, seedVars>>

\* Inventory: PRODUCTS // 2 sampled products per store
GenInventory ==
    /\ gpc = "inventory"
    /\ LET done == Len(inventory) \div (PRODUCTS \div 2)
           st == stores[done + 1]
       IN \E prod_sample \in Samples(products, PRODUCTS \div 2) :
          \E quantity \in Quantities :
            /\ inventory' = inventory \o
                   [j \in 1..(PRODUCTS \div 2) |->
                       [store_id |-> st.store_id,
                        product_id |-> prod_sample[j].product_id,
                        quantity |-> quantity]]
            /\ gpc' = IF done + 1 = STORES THEN "sales" ELSE "inventory"
    /\ UNCHANGED <<products, stores, employees, customers, sales_hdr, sale_lines>>
    /\ UNCHANGED <<fileVars, mainVars, dbVars, sqlgenVars, seedVars>>

\* One iteration of the sales loop.
GenSale ==
    /\ gpc = "sales"
    /\ LET sale_id == Len(sales_hdr) + 1 IN
       \E st \in Range(stores) :
       \E emp \in Range(employees_in_store(st.store_id)) :
       \E cust \in Range(customers) :
       \E n_lines \in MIN_LINES..MAX_LINES :
       \E chosen \in Samples(products, n_lines) :
       \E qty \in Quantities :
       \E ts \in Dates :
         LET lines == [j \in 1..n_lines |->
                          [sale_id |-> sale_id, line_number |-> j,
                           product_id |-> chosen[j].product_id, quantity |-> qty,
                           unit_price |-> chosen[j].price,
                           line_total |-> chosen[j].price * qty]]
         IN
         /\ sale_lines' = sale_lines \o lines
         /\ sales_hdr' = Append(sales_hdr,
                [sale_id |-> sale_id, timestamp |-> ts,
                 customer_id |-> cust.customer_id, store_id |-> st.store_id,
                 employee_id |-> emp.employee_id,
                 total_amount |-> SumSeq([j \in 1..n_lines |-> lines[j].line_total])])
         /\ gpc' = IF sale_id = SALES THEN "write" ELSE "sales"
    /\ UNCHANGED <<products, stores, employees, customers, inventory>>
    /\ UNCHANGED <<fileVars, mainVars, dbVars, sqlgenVars, seedVars>>

(***************************************************************************)
(* src/json/generator.py: the documents                                    *)
(***************************************************************************)
\* Extended-JSON date: strftime("%Y-%m-%dT%H:%M:%SZ")
mongo_date(dt) == [date |-> <<dt, "T", "Z">>]

cat_by_id(cid) == (CHOOSE c \in Range(categories) : c.category_id = cid).name
prod_by_id(pid) == CHOOSE p \in Range(products) : p.product_id = pid
emp_by_id(eid) == CHOOSE e \in Range(employees) : e.employee_id = eid
store_by_id(sid) == CHOOSE s \in Range(stores) : s.store_id = sid
cust_by_id(cid) == CHOOSE c \in Range(customers) : c.customer_id = cid
lines_by_sale(sale_id) == SelectSeq(sale_lines, LAMBDA l : l.sale_id = sale_id)

embedded_product(pr) ==
    [name |-> pr.name, category |-> cat_by_id(pr.category_id), price |-> pr.price]

store_docs ==
    [s \in DOMAIN stores |->
        LET st == stores[s]
            inv == SelectSeq(inventory, LAMBDA i : i.store_id = st.store_id)
            emps == SelectSeq(employees, LAMBDA e : e.store_id = st.store_id)
        IN [store_name |-> st.name,
            address |-> st.address,
            employees |-> [j \in DOMAIN emps |->
                [first_name |-> emps[j].first_name, last_name |-> emps[j].last_name,
                 position |-> emps[j].position]],
            inventory |-> [j \in DOMAIN inv |->
                [product |-> embedded_product(prod_by_id(inv[j].product_id)),
                 quantity |-> inv[j].quantity]]]]

sale_docs ==
    [k \in DOMAIN sales_hdr |->
        LET sh == sales_hdr[k]
            st == store_by_id(sh.store_id)
            emp == emp_by_id(sh.employee_id)
            cust == cust_by_id(sh.customer_id)
            lns == lines_by_sale(sh.sale_id)
        IN [timestamp |-> mongo_date(sh.timestamp),
            store |-> [name |-> st.name],
            employee |-> [first_name |-> emp.first_name, last_name |-> emp.last_name],
            customer |-> [first_name |-> cust.first_name, last_name |-> cust.last_name,
                          email |-> cust.email],
            lines |-> [j \in DOMAIN lns |->
                [product |-> embedded_product(prod_by_id(lns[j].product_id)),
                 quantity |-> lns[j].quantity, line_total |-> lns[j].line_total]],
            total_amount |-> sh.total_amount]]

\* CATALOG_FILE.write_text / SALES_FILE.write_text
WriteJsonFiles ==
    /\ gpc = "write"
    /\ catalogJson' = store_docs
    /\ salesJson' = sale_docs
    /\ gpc' = "write_sql"
    /\ UNCHANGED <<products, stores, employees, customers, inventory, sales_hdr, sale_lines>>
    /\ UNCHANGED <<sqlFile, csv, mainVars, dbVars, sqlgenVars, seedVars>>

(***************************************************************************)
(* src/sql/generator.py: the SQL file                                      *)
(***************************************************************************)
\* the write_batches calls with the sale lines written before the sales
TableNames_lines_first ==
    <<"Category", "Product", "Store", "Employee", "Customer", "Inventory", "SaleLine", "Sale">>

TableNames ==
    <<"Category", "Product", "Store", "Employee", "Customer", "Inventory", "Sale", "SaleLine">>

Columns(table) ==
    CASE table = "Category" -> <<"category_id", "name">>
      [] table = "Product" -> <<"product_id", "name", "price", "category_id">>
      [] table = "Store" -> <<"store_id", "name", "address">>
      [] table = "Employee" ->
            <<"employee_id", "first_name", "last_name", "position", "store_id">>
      [] table = "Customer" -> <<"customer_id", "first_name", "last_name", "email">>
      [] table = "Inventory" -> <<"store_id", "product_id", "quantity">>
      [] table = "Sale" ->
            <<"sale_id", "sale_timestamp", "customer_id", "store_id", "employee_id",
              "total_amount">>
      [] table = "SaleLine" ->
            <<"sale_id", "line_number", "product_id", "quantity", "unit_price",
              "line_total">>

\* The DDL section: one statement per CREATE, in source order.  ref lists the
\* REFERENCES clauses as <<column, table, column>>.
CreateTable(table, pk, ref) ==
    [kind |-> "CREATE TABLE", table |-> table, pk |-> pk, ref |-> ref]

DDL ==
    << CreateTable("Category", <<"category_id">>, {}),
       CreateTable("Product", <<"product_id">>,
                   {<<"category_id", "Category", "category_id">>}),
       CreateTable("Store", <<"store_id">>, {}),
       CreateTable("Employee", <<"employee_id">>, {<<"store_id", "Store", "store_id">>}),
       CreateTable("Customer", <<"customer_id">>, {}),
       CreateTable("Inventory", <<"store_id", "product_id">>,
                   {<<"store_id", "Store", "store_id">>,
                    <<"product_id", "Product", "product_id">>}),
       CreateTable("Sale", <<"sale_id">>,
                   {<<"customer_id", "Customer", "customer_id">>,
                    <<"store_id", "Store", "store_id">>,
                    <<"employee_id", "Employee", "employee_id">>}),
       CreateTable("SaleLine", <<"sale_id", "line_number">>,
                   {<<"sale_id", "Sale", "sale_id">>,
                    <<"product_id", "Product", "product_id">>}),
       [kind |-> "CREATE INDEX", table |-> "Sale", name |-> "idx_sale_timestamp"],
       [kind |-> "CREATE INDEX", table |-> "Product", name |-> "idx_product_category"] >>

\* an islice that takes one item more than asked
islice_through(it, size) == SubSeq(it, 1, Min(size + 1, Len(it)))

\* itertools.islice(it, size): the next at most size items of the iterator
islice(it, size) == SubSeq(it, 1, Min(size, Len(it)))

\* what the iterator holds after that islice
advance(it, size) == SubSeq(it, Min(size, Len(it)) + 1, Len(it))

\* chunks(iterable, size): the sequence of chunks the generator yields
RECURSIVE chunks(_, _)
chunks(iterable, size) ==
    LET chunk == islice(iterable, size) IN
    IF chunk = <<>> THEN <<>>
    ELSE <<chunk>> \o chunks(advance(iterable, size), size)

\* fmt_value on a datetime: strftime("%Y-%m-%d %H:%M:%S"); other values as they are
fmt_row(row) ==
    IF "sale_timestamp" \in DOMAIN row
    THEN [row EXCEPT !.sale_timestamp = <<@, " ">>]
    ELSE row

build_insert(table, columns, rows) ==
    [kind |-> "INSERT", table |-> table, columns |-> columns,
     rows |-> [i \in DOMAIN rows |-> fmt_row(rows[i])]]

write_batches(data, table, columns, size) ==
    LET batches == chunks(data, size) IN
    [b \in DOMAIN batches |-> build_insert(table, columns, batches[b])]

\* the SQL generator's sales list (its tuples, named by column)
sales ==
    [k \in DOMAIN sales_hdr |->
        [sale_id |-> sales_hdr[k].sale_id, sale_timestamp |-> sales_hdr[k].timestamp,
         customer_id |-> sales_hdr[k].customer_id, store_id |-> sales_hdr[k].store_id,
         employee_id |-> sales_hdr[k].employee_id,
         total_amount |-> sales_hdr[k].total_amount]]

TableData ==
    [Category |-> categories, Product |-> products, Store |-> stores,
     Employee |-> employees, Customer |-> customers, Inventory |-> inventory,
     Sale |-> sales, SaleLine |-> sale_lines]

\* a file with a COMMIT after the batches of every table
SqlFile_commit_per_table(data, size) ==
    DDL
    \o Concat([t \in DOMAIN TableNames |->
                  write_batches(data[TableNames[t]], TableNames[t],
                                Columns(TableNames[t]), size)
                  \o << [kind |-> "COMMIT"] >>])

\* the whole file: DDL, the batches of each table in turn, COMMIT
SqlFile(data, size) ==
    DDL
    \o Concat([t \in DOMAIN TableNames |->
                  write_batches(data[TableNames[t]], TableNames[t],
                                Columns(TableNames[t]), size)])
    \o << [kind |-> "COMMIT"] >>

WriteSqlFile ==
    /\ gpc = "write_sql"
    /\ sqlFile' = SqlFile(TableData, BATCH_SIZE)
    /\ gpc' = "done"
    /\ UNCHANGED <<products, stores, employees, customers, inventory, sales_hdr, sale_lines>>
    /\ UNCHANGED <<catalogJson, salesJson, csv, mainVars, dbVars, sqlgenVars, seedVars>>

(***************************************************************************)
(* The PostgreSQL server, as the two loaders use it.  A database holds the *)
(* tables and rows the open transaction sees (tables, rows) and the        *)
(* committed ones (ctables, crows).                                        *)
(***************************************************************************)
PG_DB_SQL == "commerce"
PG_DB_JSON == "commerce_sql_json"

NewDb == [tx |-> FALSE, tables |-> {}, rows |-> <<>>, ctables |-> {}, crows |-> <<>>,
          commits |-> 0, warnings |-> 0]

\* unquoted identifiers fold to lower case; copy_rows passes table.lower()
LowerCase ==
    [Category |-> "category", Product |-> "product", Store |-> "store",
     Employee |-> "employee", Customer |-> "customer", Inventory |-> "inventory",
     Sale |-> "sale", SaleLine |-> "saleline"]

lower(table) == IF table \in DOMAIN LowerCase THEN LowerCase[table] ELSE table

Schema(tbl) ==
    CHOOSE d \in Range(DDL) : d.kind = "CREATE TABLE" /\ lower(d.table) = tbl

\* the row a table stores for a row of literals: a timestamp literal in
\* either format is read as the instant it names
pg_row(table, row) ==
    LET r == ("tbl" :> lower(table)) @@ row IN
    IF "sale_timestamp" \in DOMAIN row
    THEN [r EXCEPT !.sale_timestamp = @[1]]
    ELSE r

KeyOf(r, cols) == [i \in DOMAIN cols |-> r[cols[i]]]

PrimaryKeyOk(rows, r) ==
    \A q \in Range(rows) :
        q.tbl = r.tbl => KeyOf(q, Schema(r.tbl).pk) # KeyOf(r, Schema(r.tbl).pk)

References(rows, r) ==
    \A ref \in Schema(r.tbl).ref :
        \E q \in Range(rows) : q.tbl = lower(ref[2]) /\ q[ref[3]] = r[ref[1]]

\* the rows of one INSERT or COPY, one after another; ok is FALSE from the
\* first row that breaks a constraint
RECURSIVE insert_rows(_, _, _)
insert_rows(db, table, rows) ==
    IF rows = <<>> THEN [db |-> db, ok |-> TRUE]
    ELSE LET r == pg_row(table, Head(rows)) IN
         IF /\ r.tbl \in db.tables
            /\ PrimaryKeyOk(db.rows, r)
            /\ References(db.rows, r)
         THEN insert_rows([db EXCEPT !.rows = Append(@, r)], table, Tail(rows))
         ELSE [db |-> db, ok |-> FALSE]

\* COMMIT in an open transaction commits it; outside one it is a warning
pg_commit(db) ==
    IF db.tx
    THEN [db EXCEPT !.tx = FALSE, !.ctables = db.tables, !.crows = db.rows,
                    !.commits = @ + 1]
    ELSE [db EXCEPT !.warnings = @ + 1]

pg_rollback(db) == [db EXCEPT !.tx = FALSE, !.tables = db.ctables, !.rows = db.crows]

\* one statement inside a transaction block
pg_execute(db, stmt) ==
    CASE stmt.kind = "CREATE TABLE" ->
            IF lower(stmt.table) \in db.tables THEN [db |-> db, ok |-> FALSE]
            ELSE [db |-> [db EXCEPT !.tables = @ \cup {lower(stmt.table)}], ok |-> TRUE]
      [] stmt.kind = "CREATE INDEX" ->
            [db |-> db, ok |-> lower(stmt.table) \in db.tables]
      [] stmt.kind = "INSERT" -> insert_rows(db, stmt.table, stmt.rows)
      [] stmt.kind = "COMMIT" -> [db |-> pg_commit(db), ok |-> TRUE]

\* one statement of a script: outside a transaction block the server commits
\* a successful statement on its own
pg_statement(db, stmt) ==
    IF db.tx \/ stmt.kind = "COMMIT" THEN pg_execute(db, stmt)
    ELSE LET r == pg_execute([db EXCEPT !.tx = TRUE], stmt) IN
         IF r.ok THEN [db |-> pg_commit(r.db), ok |-> TRUE]
         ELSE [db |-> pg_rollback(r.db), ok |-> FALSE]

\* a script of several statements in one cur.execute: the server runs them
\* one after another and stops at the first error; run lists the statements
\* it ran, in order
RECURSIVE pg_script(_, _, _)
pg_script(db, script, run) ==
    IF script = <<>> THEN [db |-> db, ok |-> TRUE, run |-> run]
    ELSE LET r == pg_statement(db, Head(script)) IN
         IF r.ok THEN pg_script(r.db, Tail(script), Append(run, Head(script)))
         ELSE [db |-> r.db, ok |-> FALSE, run |-> Append(run, Head(script))]

\* psycopg2 with autocommit off: the first execute of a connection in status
\* READY sends BEGIN
pq_begin(db, status) == IF status = "READY" THEN [db EXCEPT !.tx = TRUE] ELSE db

(***************************************************************************)
(* src/ingest_benchmark.py                                                 *)
(***************************************************************************)
Steps ==
    <<"load_postgres_sql", "load_postgres_from_json", "load_mongo_catalog",
      "load_mongo_sales">>

NoFile == [exists |-> FALSE, rows |-> <<>>]

\* an ingest_times.csv left by an earlier run
StaleCsv ==
    [exists |-> TRUE, rows |-> << <<"step", "duration_seconds">>, <<"postgres_sql", 0>> >>]

\* what an earlier run left in a collection
StaleDocs == << [_id |-> <<"old", 1>>, doc |-> [stale |-> TRUE]] >>

NoLocals == [phase |-> "idle"]

\* timed(label): the wrapper takes t0, runs the step, returns the elapsed time
timed_enter(step) ==
    /\ pc = step
    /\ spc = "call"
    /\ gpc = "done"
    /\ calls' = Append(calls, step)
    /\ t0' = clock
    /\ clock' = clock + 1
    /\ UNCHANGED returned

elapsed == (clock + 1) - t0

\* timed(label) returns (dt, result)
timed_return(step) == returned' = Append(returned, <<step, elapsed>>)

\* a file opened for appending: an existing file keeps its rows
write_csv_append(old, rows) ==
    [exists |-> TRUE, rows |-> old.rows \o << <<"step", "duration_seconds">> >> \o rows]

\* with OUT_CSV.open("w"): the header row, then the results
write_csv(old, rows) ==
    [exists |-> TRUE, rows |-> << <<"step", "duration_seconds">> >> \o rows]

\* an exception that leaves main() through a handler writing the results so far
raise_writing_results ==
    /\ pc' = "crashed"
    /\ clock' = clock + 1
    /\ csv' = write_csv(csv, results)
    /\ UNCHANGED <<spc, results, calls, returned, t0, dt_cat>>
    /\ UNCHANGED <<sqlFile, catalogJson, salesJson, genVars, sqlgenVars, seedVars>>

\* an exception leaves main(): nothing after the failing call runs
raise ==
    /\ pc' = "crashed"
    /\ clock' = clock + 1
    /\ UNCHANGED <<spc, results, calls, returned, t0, dt_cat, fileVars, genVars, sqlgenVars, seedVars>>

(***************************************************************************)
(* load_postgres_sql                                                       *)
(***************************************************************************)
CallLoadPostgresSql ==
    /\ timed_enter("load_postgres_sql")
    /\ conn' = "READY"
    /\ sent' = [sent EXCEPT ![PG_DB_SQL] = <<>>]
    /\ spc' = "execute"
    /\ UNCHANGED <<pc, results, dt_cat, pg, lj, mongo, mchunk>>
    /\ UNCHANGED <<genVars, fileVars, sqlgenVars, seedVars>>

\* cur.execute(SQL_FILE.read_text()): BEGIN, then the whole script
ExecSqlFile ==
    /\ pc = "load_postgres_sql"
    /\ spc = "execute"
    /\ LET r == pg_script(pq_begin(pg[PG_DB_SQL], conn), sqlFile, <<>>) IN
       /\ sent' = [sent EXCEPT ![PG_DB_SQL] = r.run]
       /\ IF r.ok
          THEN /\ pg' = [pg EXCEPT ![PG_DB_SQL] = r.db]
               /\ conn' = "BEGIN"
               /\ spc' = "commit"
               /\ clock' = clock + 1
               /\ UNCHANGED <<pc, results, calls, returned, t0, dt_cat>>
               /\ UNCHANGED <<genVars, fileVars, sqlgenVars, seedVars>>
          ELSE /\ pg' = [pg EXCEPT ![PG_DB_SQL] = pg_rollback(r.db)]
               /\ conn' = "closed"
               /\ raise
    /\ UNCHANGED <<lj, mongo, mchunk>>

\* conn.commit(): psycopg2 sends COMMIT when its status is BEGIN; then the
\* wrapper returns and main appends the result
CommitSql ==
    /\ pc = "load_postgres_sql"
    /\ spc = "commit"
    /\ pg' = [pg EXCEPT ![PG_DB_SQL] = IF conn = "BEGIN" THEN pg_commit(@) ELSE @]
    /\ conn' = "closed"
    /\ results' = Append(results, <<"postgres_sql", elapsed>>)
    /\ pc' = "load_postgres_from_json"
    /\ spc' = "call"
    /\ clock' = clock + 1
    /\ timed_return("load_postgres_sql")
    /\ UNCHANGED <<calls, t0, dt_cat, sent, lj, mongo, mchunk>>
    /\ UNCHANGED <<genVars, fileVars, sqlgenVars, seedVars>>

(***************************************************************************)
(* load_postgres_from_json                                                 *)
(***************************************************************************)
\* a dict: put, and len
Put(map, key, value) == (key :> value) @@ map
len(map) == Cardinality(DOMAIN map)

IndexOf(seq, x) == CHOOSE i \in DOMAIN seq : seq[i] = x

\* one call copy_rows(cur, table, columns, rows)
Copy(table, columns, rows) == [table |-> table, columns |-> columns, rows |-> rows]

\* copy_rows on the connection state c = [db, sent, ok]; it is not reached
\* once an earlier call has raised
copy_rows(c, table, columns, rows) ==
    IF ~c.ok \/ rows = <<>> THEN c
    ELSE LET recs == [i \in DOMAIN rows |->
                         [col \in Range(columns) |-> rows[i][IndexOf(columns, col)]]]
             r == insert_rows(c.db, lower(table), recs)
         IN [db |-> r.db,
             sent |-> c.sent \o [i \in DOMAIN recs |->
                         [kind |-> "COPY", table |-> lower(table), row |-> recs[i]]],
             ok |-> r.ok]

RECURSIVE run_copies(_, _)
run_copies(c, copies) ==
    IF copies = <<>> THEN c
    ELSE run_copies(copy_rows(c, Head(copies).table, Head(copies).columns,
                              Head(copies).rows),
                    Tail(copies))

\* Return plain ISO-8601 string acceptable to Postgres: drop the Z
extract_ts(ts) ==
    IF "date" \in DOMAIN ts THEN SelectSeq(ts.date, LAMBDA ch : ch # "Z") ELSE ts

InitLocals ==
    [category_map |-> <<>>, product_map |-> <<>>, store_map |-> <<>>,
     employee_map |-> <<>>, next_cat |-> 1, next_prod |-> 1, next_emp |-> 1,
     customers_map |-> <<>>, next_cust |-> 1, next_sale |-> 1,
     phase |-> "store", si |-> 1, ei |-> 1, ii |-> 1, ki |-> 1, li |-> 1,
     s_id |-> 0, sale_id |-> 0, line_no |-> 1]

\* the position of the next loop iteration that has a body to run: exhausted
\* loops fall through to the code after them
RECURSIVE NextIteration(_)
NextIteration(l) ==
    CASE l.phase = "store" /\ l.si > Len(catalogJson) ->
            NextIteration([l EXCEPT !.phase = "sale", !.ki = 1])
      [] l.phase = "employees" /\ l.ei > Len(catalogJson[l.si].employees) ->
            NextIteration([l EXCEPT !.phase = "inventory", !.ii = 1])
      [] l.phase = "inventory" /\ l.ii > Len(catalogJson[l.si].inventory) ->
            NextIteration([l EXCEPT !.phase = "store", !.si = @ + 1])
      [] l.phase = "sale" /\ l.ki > Len(salesJson) ->
            [l EXCEPT !.phase = "commit"]
      [] l.phase = "lines" /\ l.li > Len(salesJson[l.ki].lines) ->
            NextIteration([l EXCEPT !.phase = "sale", !.ki = @ + 1])
      [] OTHER -> l

\* for store_doc in catalog: the store row
load_store(l, store_doc) ==
    LET s_id == len(l.store_map) + 1 IN
    [l |-> [l EXCEPT !.store_map = Put(@, store_doc.store_name, s_id),
                     !.s_id = s_id, !.phase = "employees", !.ei = 1],
     copies |-> << Copy("store", <<"store_id", "name", "address">>,
                        << <<s_id, store_doc.store_name, store_doc.address>> >>) >>,
     ok |-> TRUE]

\* for emp in store_doc["employees"]
load_employee(l, emp) ==
    LET eid == l.next_emp IN
    [l |-> [l EXCEPT !.next_emp = @ + 1,
                     !.employee_map = Put(@, <<emp.first_name, emp.last_name, l.s_id>>, eid),
                     !.ei = @ + 1],
     copies |-> << Copy("employee",
                        <<"employee_id", "first_name", "last_name", "position", "store_id">>,
                        << <<eid, emp.first_name, emp.last_name, emp.position, l.s_id>> >>) >>,
     ok |-> TRUE]

\* the inventory iteration copying the product row before its category row
load_inventory_product_first(l, inv) ==
    LET prod == inv.product
        cat_name == prod.category
        new_cat == cat_name \notin DOMAIN l.category_map
        l1 == IF new_cat
              THEN [l EXCEPT !.category_map = Put(@, cat_name, l.next_cat),
                             !.next_cat = @ + 1]
              ELSE l
        new_prod == prod.name \notin DOMAIN l1.product_map
        l2 == IF new_prod
              THEN [l1 EXCEPT !.product_map = Put(@, prod.name, l1.next_prod),
                              !.next_prod = @ + 1]
              ELSE l1
    IN
    [l |-> [l2 EXCEPT !.ii = @ + 1],
     copies |->
        (IF new_prod
         THEN << Copy("product", <<"product_id", "name", "price", "category_id">>,
                      << <<l2.product_map[prod.name], prod.name, prod.price,
                           l1.category_map[cat_name]>> >>) >>
         ELSE <<>>)
        \o (IF new_cat
            THEN << Copy("category", <<"category_id", "name">>,
                         << <<l1.category_map[cat_name], cat_name>> >>) >>
            ELSE <<>>)
        \o << Copy("inventory", <<"store_id", "product_id", "quantity">>,
                   << <<l.s_id, l2.product_map[prod.name], inv.quantity>> >>) >>,
     ok |-> TRUE]

\* the inventory iteration testing the product name against category_map
load_inventory_wrong_map(l, inv) ==
    LET prod == inv.product
        cat_name == prod.category
        new_cat == cat_name \notin DOMAIN l.category_map
        l1 == IF new_cat
              THEN [l EXCEPT !.category_map = Put(@, cat_name, l.next_cat),
                             !.next_cat = @ + 1]
              ELSE l
        new_prod == prod.name \notin DOMAIN l1.category_map
        l2 == IF new_prod
              THEN [l1 EXCEPT !.product_map = Put(@, prod.name, l1.next_prod),
                              !.next_prod = @ + 1]
              ELSE l1
    IN
    [l |-> [l2 EXCEPT !.ii = @ + 1],
     copies |->
        (IF new_cat
         THEN << Copy("category", <<"category_id", "name">>,
                      << <<l1.category_map[cat_name], cat_name>> >>) >>
         ELSE <<>>)
        \o (IF new_prod
            THEN << Copy("product", <<"product_id", "name", "price", "category_id">>,
                         << <<l2.product_map[prod.name], prod.name, prod.price,
                              l1.category_map[cat_name]>> >>) >>
            ELSE <<>>)
        \o << Copy("inventory", <<"store_id", "product_id", "quantity">>,
                   << <<l.s_id, l2.product_map[prod.name], inv.quantity>> >>) >>,
     ok |-> TRUE]

\* for inv in store_doc["inventory"]
load_inventory(l, inv) ==
    LET prod == inv.product
        cat_name == prod.category
        new_cat == cat_name \notin DOMAIN l.category_map
        l1 == IF new_cat
              THEN [l EXCEPT !.category_map = Put(@, cat_name, l.next_cat),
                             !.next_cat = @ + 1]
              ELSE l
        new_prod == prod.name \notin DOMAIN l1.product_map
        l2 == IF new_prod
              THEN [l1 EXCEPT !.product_map = Put(@, prod.name, l1.next_prod),
                              !.next_prod = @ + 1]
              ELSE l1
    IN
    [l |-> [l2 EXCEPT !.ii = @ + 1],
     copies |->
        (IF new_cat
         THEN << Copy("category", <<"category_id", "name">>,
                      << <<l1.category_map[cat_name], cat_name>> >>) >>
         ELSE <<>>)
        \o (IF new_prod
            THEN << Copy("product", <<"product_id", "name", "price", "category_id">>,
                         << <<l2.product_map[prod.name], prod.name, prod.price,
                              l1.category_map[cat_name]>> >>) >>
            ELSE <<>>)
        \o << Copy("inventory", <<"store_id", "product_id", "quantity">>,
                   << <<l.s_id, l2.product_map[prod.name], inv.quantity>> >>) >>,
     ok |-> TRUE]

\* for sale in sales_docs: the customer and the sale row.  ok is FALSE when
\* a dict lookup raises KeyError.
load_sale(l, sale) ==
    LET cust_email == sale.customer.email
        new_cust == cust_email \notin DOMAIN l.customers_map
        l1 == IF new_cust
              THEN [l EXCEPT !.customers_map = Put(@, cust_email, l.next_cust),
                             !.next_cust = @ + 1]
              ELSE l
        c == sale.customer
        customer_copy ==
            IF new_cust
            THEN << Copy("customer", <<"customer_id", "first_name", "last_name", "email">>,
                         << <<l1.customers_map[cust_email], c.first_name, c.last_name,
                              c.email>> >>) >>
            ELSE <<>>
    IN
    IF sale.store.name \notin DOMAIN l1.store_map
    THEN [l |-> l1, copies |-> customer_copy, ok |-> FALSE]
    ELSE
    LET store_id == l1.store_map[sale.store.name]
        emp_key == <<sale.employee.first_name, sale.employee.last_name, store_id>>
    IN
    IF emp_key \notin DOMAIN l1.employee_map
    THEN [l |-> l1, copies |-> customer_copy, ok |-> FALSE]
    ELSE
    LET employee_id == l1.employee_map[emp_key]
        sale_id == l1.next_sale
        ts_value == extract_ts(sale.timestamp)
    IN
    [l |-> [l1 EXCEPT !.next_sale = @ + 1, !.sale_id = sale_id, !.phase = "lines",
                      !.li = 1, !.line_no = 1],
     copies |-> customer_copy
        \o << Copy("sale",
                   <<"sale_id", "sale_timestamp", "customer_id", "store_id",
                     "employee_id", "total_amount">>,
                   << <<sale_id, ts_value, l1.customers_map[cust_email], store_id,
                        employee_id, sale.total_amount>> >>) >>,
     ok |-> TRUE]

\* for ln in sale["lines"]: a line whose product is not in product_map is
\* skipped (continue)
load_sale_line(l, ln) ==
    IF ln.product.name \notin DOMAIN l.product_map
    THEN [l |-> [l EXCEPT !.li = @ + 1], copies |-> <<>>, ok |-> TRUE]
    ELSE [l |-> [l EXCEPT !.li = @ + 1, !.line_no = @ + 1],
          copies |-> << Copy("saleline",
                             <<"sale_id", "line_number", "product_id", "quantity",
                               "unit_price", "line_total">>,
                             << <<l.sale_id, l.line_no, l.product_map[ln.product.name],
                                  ln.quantity, ln.product.price, ln.line_total>> >>) >>,
          ok |-> TRUE]

\* one loop iteration: its COPYs in order; an error rolls the transaction
\* back (the connection's with block) and leaves main()
loader_step(res) ==
    LET c == run_copies([db |-> pg[PG_DB_JSON], sent |-> sent[PG_DB_JSON], ok |-> TRUE],
                        res.copies)
    IN /\ sent' = [sent EXCEPT ![PG_DB_JSON] = c.sent]
       /\ IF c.ok /\ res.ok
          THEN /\ pg' = [pg EXCEPT ![PG_DB_JSON] = c.db]
               /\ lj' = NextIteration(res.l)
               /\ clock' = clock + 1
               /\ UNCHANGED <<pc, spc, results, calls, returned, t0, dt_cat, conn>>
               /\ UNCHANGED <<genVars, fileVars, sqlgenVars, seedVars>>
          ELSE /\ pg' = [pg EXCEPT ![PG_DB_JSON] = pg_rollback(c.db)]
               /\ conn' = "closed"
               /\ lj' = lj
               /\ raise
       /\ UNCHANGED <<mongo, mchunk>>

\* connect, cur.execute(DDL_FILE.read_text()), json.loads of the catalog
CallLoadPostgresFromJson ==
    /\ timed_enter("load_postgres_from_json")
    /\ LET r == pg_script(pq_begin(pg[PG_DB_JSON], "READY"), DDL, <<>>) IN
       /\ sent' = [sent EXCEPT ![PG_DB_JSON] = r.run]
       /\ IF r.ok
          THEN /\ pg' = [pg EXCEPT ![PG_DB_JSON] = r.db]
               /\ conn' = "BEGIN"
               /\ lj' = NextIteration(InitLocals)
               /\ spc' = "run"
               /\ UNCHANGED pc
          ELSE /\ pg' = [pg EXCEPT ![PG_DB_JSON] = pg_rollback(r.db)]
               /\ conn' = "closed"
               /\ lj' = lj
               /\ pc' = "crashed"
               /\ UNCHANGED spc
    /\ UNCHANGED <<results, dt_cat, mongo, mchunk>>
    /\ UNCHANGED <<genVars, fileVars, sqlgenVars, seedVars>>

InJsonLoad(phase) ==
    /\ pc = "load_postgres_from_json"
    /\ spc = "run"
    /\ lj.phase = phase

LoadStore ==
    /\ InJsonLoad("store")
    /\ loader_step(load_store(lj, catalogJson[lj.si]))

LoadEmployee ==
    /\ InJsonLoad("employees")
    /\ loader_step(load_employee(lj, catalogJson[lj.si].employees[lj.ei]))

LoadInventory ==
    /\ InJsonLoad("inventory")
    /\ loader_step(load_inventory(lj, catalogJson[lj.si].inventory[lj.ii]))

LoadSale ==
    /\ InJsonLoad("sale")
    /\ loader_step(load_sale(lj, salesJson[lj.ki]))

LoadSaleLine ==
    /\ InJsonLoad("lines")
    /\ loader_step(load_sale_line(lj, salesJson[lj.ki].lines[lj.li]))

\* conn.commit(), then the wrapper returns and main appends the result
CommitJson ==
    /\ InJsonLoad("commit")
    /\ pg' = [pg EXCEPT ![PG_DB_JSON] = IF conn = "BEGIN" THEN pg_commit(@) ELSE @]
    /\ conn' = "closed"
    /\ lj' = [lj EXCEPT !.phase = "returned"]
    /\ results' = Append(results, <<"postgres_json", elapsed>>)
    /\ pc' = "load_mongo_catalog"
    /\ spc' = "call"
    /\ clock' = clock + 1
    /\ timed_return("load_postgres_from_json")
    /\ UNCHANGED <<calls, t0, dt_cat, sent, mongo, mchunk>>
    /\ UNCHANGED <<genVars, fileVars, sqlgenVars, seedVars>>

(***************************************************************************)
(* load_mongo_catalog, load_mongo_sales                                    *)
(***************************************************************************)
\* coll.insert_many(docs): pymongo gives every document without an _id a new
\* ObjectId and the server inserts them in order; oids counts the ObjectIds
\* this process has generated
insert_many(coll, docs, oids) ==
    coll \o [i \in DOMAIN docs |-> [_id |-> <<"oid", oids + i>>, doc |-> docs[i]]]

CallLoadMongoCatalog ==
    /\ timed_enter("load_mongo_catalog")
    /\ spc' = "drop"
    /\ UNCHANGED <<pc, results, dt_cat, dbVars>>
    /\ UNCHANGED <<genVars, fileVars, sqlgenVars, seedVars>>

\* coll.drop()
DropStores ==
    /\ pc = "load_mongo_catalog"
    /\ spc = "drop"
    /\ mongo' = [mongo EXCEPT !.stores = <<>>]
    /\ spc' = "insert"
    /\ clock' = clock + 1
    /\ UNCHANGED <<pc, results, calls, returned, t0, dt_cat, pg, conn, sent, lj, mchunk>>
    /\ UNCHANGED <<genVars, fileVars, sqlgenVars, seedVars>>

\* coll.insert_many(docs), client.close(), and the wrapper returns
InsertStores ==
    /\ pc = "load_mongo_catalog"
    /\ spc = "insert"
    /\ catalogJson # <<>>
    /\ mongo' = [mongo EXCEPT !.stores = insert_many(@, catalogJson, mongo.oids),
                              !.oids = @ + Len(catalogJson)]
    /\ dt_cat' = elapsed
    /\ pc' = "load_mongo_sales"
    /\ spc' = "call"
    /\ clock' = clock + 1
    /\ timed_return("load_mongo_catalog")
    /\ UNCHANGED <<results, calls, t0, pg, conn, sent, lj, mchunk>>
    /\ UNCHANGED <<genVars, fileVars, sqlgenVars, seedVars>>

\* slices that each reach one document into the next
mongo_chunks_overlapping(docs) ==
    [j \in 1..((Len(docs) + CHUNK - 1) \div CHUNK) |->
        SubSeq(docs, (j - 1) * CHUNK + 1, Min(j * CHUNK + 1, Len(docs)))]

\* [docs[i:i+CHUNK] for i in range(0, len(docs), CHUNK)]
mongo_chunks(docs) ==
    [j \in 1..((Len(docs) + CHUNK - 1) \div CHUNK) |->
        SubSeq(docs, (j - 1) * CHUNK + 1, Min(j * CHUNK, Len(docs)))]

CallLoadMongoSales ==
    /\ timed_enter("load_mongo_sales")
    /\ spc' = "drop"
    /\ UNCHANGED <<pc, results, dt_cat, dbVars>>
    /\ UNCHANGED <<genVars, fileVars, sqlgenVars, seedVars>>

DropSales ==
    /\ pc = "load_mongo_sales"
    /\ spc = "drop"
    /\ mongo' = [mongo EXCEPT !.sales = <<>>]
    /\ mchunk' = 0
    /\ spc' = "insert"
    /\ clock' = clock + 1
    /\ UNCHANGED <<pc, results, calls, returned, t0, dt_cat, pg, conn, sent, lj>>
    /\ UNCHANGED <<genVars, fileVars, sqlgenVars, seedVars>>

\* coll.insert_many(chunk) for the next chunk
InsertSalesChunk ==
    /\ pc = "load_mongo_sales"
    /\ spc = "insert"
    /\ mchunk < Len(mongo_chunks(salesJson))
    /\ mongo' = [mongo EXCEPT
                    !.sales = insert_many(@, mongo_chunks(salesJson)[mchunk + 1], mongo.oids),
                    !.oids = @ + Len(mongo_chunks(salesJson)[mchunk + 1])]
    /\ mchunk' = mchunk + 1
    /\ clock' = clock + 1
    /\ UNCHANGED <<pc, spc, results, calls, returned, t0, dt_cat, pg, conn, sent, lj>>
    /\ UNCHANGED <<genVars, fileVars, sqlgenVars, seedVars>>

\* the loop is over: client.close(), the wrapper returns, main extends the
\* results with both Mongo durations
ReturnMongoSales ==
    /\ pc = "load_mongo_sales"
    /\ spc = "insert"
    /\ mchunk = Len(mongo_chunks(salesJson))
    /\ results' = results \o << <<"mongo_catalog", dt_cat>>, <<"mongo_sales", elapsed>> >>
    /\ pc' = "write_csv"
    /\ spc' = "call"
    /\ clock' = clock + 1
    /\ timed_return("load_mongo_sales")
    /\ UNCHANGED <<calls, t0, dt_cat, dbVars>>
    /\ UNCHANGED <<genVars, fileVars, sqlgenVars, seedVars>>

(***************************************************************************)
(* main()                                                                  *)
(***************************************************************************)
\* a client-library error inside the running load step: the connection's
\* with block rolls an open PostgreSQL transaction back; nothing handles the
\* exception
StepRaises ==
    /\ pc \in Range(Steps)
    /\ spc # "call"
    /\ pg' = IF pc = "load_postgres_sql"
             THEN [pg EXCEPT ![PG_DB_SQL] = pg_rollback(@)]
             ELSE IF pc = "load_postgres_from_json"
             THEN [pg EXCEPT ![PG_DB_JSON] = pg_rollback(@)]
             ELSE pg
    /\ conn' = "closed"
    /\ raise
    /\ UNCHANGED <<sent, lj, mongo, mchunk>>

\* insert_many raises after the server has inserted part of the documents:
\* an ordered insert keeps the documents inserted before the error
InsertManyRaises ==
    /\ pc \in {"load_mongo_catalog", "load_mongo_sales"}
    /\ spc = "insert"
    /\ LET docs == IF pc = "load_mongo_catalog" THEN catalogJson
                   ELSE IF mchunk < Len(mongo_chunks(salesJson))
                   THEN mongo_chunks(salesJson)[mchunk + 1]
                   ELSE <<>>
       IN \E n \in 1..Len(docs) :
            mongo' = IF pc = "load_mongo_catalog"
                     THEN [mongo EXCEPT !.stores = insert_many(@, SubSeq(docs, 1, n), mongo.oids),
                                        !.oids = @ + n]
                     ELSE [mongo EXCEPT !.sales = insert_many(@, SubSeq(docs, 1, n), mongo.oids),
                                        !.oids = @ + n]
    /\ raise
    /\ UNCHANGED <<pg, conn, sent, lj, mchunk>>

WriteCsv ==
    /\ pc = "write_csv"
    /\ csv' = write_csv(csv, results)
    /\ pc' = "done"
    /\ UNCHANGED <<spc, results, calls, returned, clock, t0, dt_cat>>
    /\ UNCHANGED <<sqlFile, catalogJson, salesJson, genVars, dbVars, sqlgenVars, seedVars>>

(***************************************************************************)
(* Spec: the generators, then one run of main()                            *)
(***************************************************************************)
SqlgenIdle ==
    /\ wpc = "idle"
    /\ wdata = <<>>
    /\ wit = <<>>
    /\ wbatches = <<>>
    /\ wfile = <<>>
    /\ wsize = 0

\* the generator scripts' own random streams are not part of this run
SeedIdle ==
    /\ seeded = [random |-> <<>>, numpy |-> <<>>]
    /\ sqlgen = [random |-> 0, sales |-> <<>>, sale_lines |-> <<>>]
    /\ jsongen = [random |-> 0, sales_hdr |-> <<>>, sale_lines |-> <<>>]

BenchmarkIdle ==
    /\ pc = "load_postgres_sql"
    /\ spc = "call"
    /\ results = <<>>
    /\ calls = <<>>
    /\ returned = <<>>
    /\ clock = 0
    /\ t0 = 0
    /\ dt_cat = 0
    /\ pg = [d \in {PG_DB_SQL, PG_DB_JSON} |-> NewDb]
    /\ conn = "closed"
    /\ sent = [d \in {PG_DB_SQL, PG_DB_JSON} |-> <<>>]
    /\ lj = NoLocals
    /\ mongo = [stores |-> StaleDocs, sales |-> StaleDocs, oids |-> 0,
                before |-> [stores |-> StaleDocs, sales |-> StaleDocs]]
    /\ mchunk = 0

Init ==
    /\ gpc = "products"
    /\ products = <<>>
    /\ stores = <<>>
    /\ employees = <<>>
    /\ customers = <<>>
    /\ inventory = <<>>
    /\ sales_hdr = <<>>
    /\ sale_lines = <<>>
    /\ sqlFile = <<>>
    /\ catalogJson = <<>>
    /\ salesJson = <<>>
    /\ csv \in {NoFile, StaleCsv}
    /\ BenchmarkIdle
    /\ SqlgenIdle
    /\ SeedIdle

Next ==
    \/ GenProduct \/ GenStore \/ GenEmployee \/ GenCustomer \/ GenInventory \/ GenSale
    \/ WriteJsonFiles \/ WriteSqlFile
    \/ CallLoadPostgresSql \/ ExecSqlFile \/ CommitSql
    \/ CallLoadPostgresFromJson \/ LoadStore \/ LoadEmployee \/ LoadInventory
    \/ LoadSale \/ LoadSaleLine \/ CommitJson
    \/ CallLoadMongoCatalog \/ DropStores \/ InsertStores
    \/ CallLoadMongoSales \/ DropSales \/ InsertSalesChunk \/ ReturnMongoSales
    \/ StepRaises \/ InsertManyRaises
    \/ WriteCsv

Spec == Init /\ [][Next]_vars

(***************************************************************************)
(* SpecSql: src/sql/generator.py writing commerce_load.sql.  The tables    *)
(* have the row counts the configurable constants give them, each constant *)
(* drawn from 1..MaxRows (SALES from 0, PRODUCTS from MIN_LINES, CUSTOMERS *)
(* 1 or MaxRows, EMPLOYEES STORES or MaxRows), every sale with MIN_LINES   *)
(* lines or every sale with PRODUCTS lines; a row is named by its table    *)
(* and position.                                                           *)
(***************************************************************************)
MaxRows == 3

TableRows(table, n) == [i \in 1..n |-> [of |-> table, row |-> i]]

\* the table written after this one, or "COMMIT" after the last
NextTable(table) ==
    LET t == IndexOf(TableNames, table) IN
    IF t = Len(TableNames) THEN "COMMIT" ELSE TableNames[t + 1]

\* f.write(DDL); the first write_batches call starts its chunks() generator
WriteDDL ==
    /\ wpc = "DDL"
    /\ wfile' = DDL
    /\ wpc' = TableNames[1]
    /\ wit' = wdata[TableNames[1]]
    /\ UNCHANGED <<wdata, wbatches, wsize>>
    /\ UNCHANGED <<genVars, fileVars, mainVars, dbVars, seedVars>>

\* chunks() yields a non-empty chunk and write_batches writes its INSERT
WriteBatch ==
    /\ wpc \in Range(TableNames)
    /\ islice(wit, wsize) # <<>>
    /\ wfile' = Append(wfile, build_insert(wpc, Columns(wpc), islice(wit, wsize)))
    /\ wbatches' = [wbatches EXCEPT ![wpc] = Append(@, islice(wit, wsize))]
    /\ wit' = advance(wit, wsize)
    /\ UNCHANGED <<wpc, wdata, wsize>>
    /\ UNCHANGED <<genVars, fileVars, mainVars, dbVars, seedVars>>

\* the chunk is empty: break; the next write_batches call starts
EndBatches ==
    /\ wpc \in Range(TableNames)
    /\ islice(wit, wsize) = <<>>
    /\ wpc' = NextTable(wpc)
    /\ wit' = IF NextTable(wpc) = "COMMIT" THEN <<>> ELSE wdata[NextTable(wpc)]
    /\ UNCHANGED <<wdata, wbatches, wfile, wsize>>
    /\ UNCHANGED <<genVars, fileVars, mainVars, dbVars, seedVars>>

\* f.write("COMMIT;\n")
WriteCommit ==
    /\ wpc = "COMMIT"
    /\ wfile' = Append(wfile, [kind |-> "COMMIT"])
    /\ wpc' = "done"
    /\ UNCHANGED <<wdata, wit, wbatches, wsize>>
    /\ UNCHANGED <<genVars, fileVars, mainVars, dbVars, seedVars>>

InitSql ==
    /\ gpc = "sql_generator"
    /\ products = <<>>
    /\ stores = <<>>
    /\ employees = <<>>
    /\ customers = <<>>
    /\ inventory = <<>>
    /\ sales_hdr = <<>>
    /\ sale_lines = <<>>
    /\ sqlFile = <<>>
    /\ catalogJson = <<>>
    /\ salesJson = <<>>
    /\ csv = StaleCsv
    /\ BenchmarkIdle
    /\ SeedIdle
    /\ wpc = "DDL"
    /\ wit = <<>>
    /\ wfile = <<>>
    /\ wbatches = [t \in Range(TableNames) |-> <<>>]
    /\ wsize \in 1..BATCH_SIZE
    /\ \E nCategories \in 1..MaxRows, nProducts \in MIN_LINES..MaxRows,
          nStores \in 1..MaxRows, nCustomers \in {1, MaxRows}, nSales \in 0..MaxRows :
       \E nEmployees \in {nStores, MaxRows},
          nLines \in {nSales * MIN_LINES, nSales * nProducts} :
         wdata =
            [t \in Range(TableNames) |->
                TableRows(t,
                    CASE t = "Category" -> nCategories
                      [] t = "Product" -> nProducts
                      [] t = "Store" -> nStores
                      [] t = "Employee" -> nEmployees
                      [] t = "Customer" -> nCustomers
                      [] t = "Inventory" -> nStores * (nProducts \div 2)
                      [] t = "Sale" -> nSales
                      [] t = "SaleLine" -> nLines)]

NextSql == WriteDDL \/ WriteBatch \/ EndBatches \/ WriteCommit

SpecSql == InitSql /\ [][NextSql]_vars

(***************************************************************************)
(* SpecMongo: load_mongo_catalog() and load_mongo_sales() as main() calls  *)
(* them, on document files of up to MaxDocs documents and collections that *)
(* hold nothing, another dataset, or what an earlier run of the same load  *)
(* on the same file left (all of it, or its first document).  The          *)
(* PostgreSQL steps before them are not modelled here; before is the       *)
(* content of the collections when the loads start.                        *)
(***************************************************************************)
MaxDocs == 5

Documents(n) == [i \in 1..n |-> [document |-> i]]

\* what an earlier process inserting docs left: its own ObjectIds
EarlierRun(docs) == [i \in DOMAIN docs |-> [_id |-> <<"old", i>>, doc |-> docs[i]]]

EarlierContents(docs) ==
    {<<>>, StaleDocs, EarlierRun(docs), EarlierRun(SubSeq(docs, 1, Min(1, Len(docs))))}

InitMongo ==
    /\ gpc = "done"
    /\ products = <<>>
    /\ stores = <<>>
    /\ employees = <<>>
    /\ customers = <<>>
    /\ inventory = <<>>
    /\ sales_hdr = <<>>
    /\ sale_lines = <<>>
    /\ sqlFile = <<>>
    /\ csv \in {NoFile, StaleCsv}
    /\ SqlgenIdle
    /\ SeedIdle
    /\ pc = "load_mongo_catalog"
    /\ spc = "call"
    /\ calls = SubSeq(Steps, 1, 2)
    /\ returned = << <<Steps[1], 1>>, <<Steps[2], 1>> >>
    /\ results = << <<"postgres_sql", 1>>, <<"postgres_json", 1>> >>
    /\ clock = 2
    /\ t0 = 1
    /\ dt_cat = 0
    /\ pg = [d \in {PG_DB_SQL, PG_DB_JSON} |-> NewDb]
    /\ conn = "closed"
    /\ sent = [d \in {PG_DB_SQL, PG_DB_JSON} |-> <<>>]
    /\ lj = NoLocals
    /\ mchunk = 0
    /\ \E nStores \in 1..MaxDocs, nSales \in 0..MaxDocs :
         /\ catalogJson = Documents(nStores)
         /\ salesJson = Documents(nSales)
         /\ \E was_stores \in EarlierContents(Documents(nStores)),
               was_sales \in EarlierContents(Documents(nSales)) :
              mongo = [stores |-> was_stores, sales |-> was_sales, oids |-> 0,
                       before |-> [stores |-> was_stores, sales |-> was_sales]]

NextMongo ==
    \/ CallLoadMongoCatalog \/ DropStores \/ InsertStores
    \/ CallLoadMongoSales \/ DropSales \/ InsertSalesChunk \/ ReturnMongoSales
    \/ StepRaises \/ InsertManyRaises
    \/ WriteCsv

SpecMongo == InitMongo /\ [][NextMongo]_vars

(***************************************************************************)
(* SpecSeed: the sales loops of src/sql/generator.py and                   *)
(* src/json/generator.py, run as two processes seeded with the same        *)
(* RANDOM_SEED.  Up to the sales loop both scripts make the same calls of  *)
(* random, numpy and Faker in the same order, so both loops start from the *)
(* same catalog, the same zipf customer indices and the same state of      *)
(* random.  The stream of random is a sequence of words that repeats with  *)
(* period Period; every such sequence is a seed.  A call of random takes   *)
(* words as CPython's Random does: _randbelow(n) reads the top             *)
(* n.bit_length() bits of the next word until they are below n.            *)
(***************************************************************************)
\* random.randint(1, 5) of a line's quantity draws from 1..MaxQuantity;
\* int((END_DATE - START_DATE).total_seconds()) is DeltaSeconds
MaxQuantity == 2
DeltaSeconds == 2
Period == 7

RECURSIVE bit_length(_)
bit_length(n) == IF n = 0 THEN 0 ELSE 1 + bit_length(n \div 2)

\* the largest argument that the sales loops pass to _randbelow
MaxBelow ==
    LET args == {DeltaSeconds + 1, STORES, EMPLOYEES, MAX_LINES - MIN_LINES + 1,
                 PRODUCTS, MaxQuantity}
    IN CHOOSE n \in args : \A m \in args : m <= n

\* a word of the stream has the bits the largest draw needs (32 in CPython)
WordBits == bit_length(MaxBelow)
Words == 0..(2^WordBits - 1)

\* getrandbits(k) at position pos of the stream rnd: the top k bits of the
\* word
getrandbits(rnd, pos, k) == rnd[(pos % Len(rnd)) + 1] \div 2^(WordBits - k)

\* r = getrandbits(k); while r not in accepted: r = getrandbits(k).
\* r is the value, at the position of the stream after it; hung when no
\* word of the stream ends the loop.
draw(rnd, pos, k, accepted) ==
    LET ending == {p \in pos..(pos + Len(rnd) - 1) : getrandbits(rnd, p, k) \in accepted} IN
    IF ending = {} THEN [r |-> 0, at |-> pos, hung |-> TRUE]
    ELSE LET p == CHOOSE q \in ending : \A q2 \in ending : q <= q2
         IN [r |-> getrandbits(rnd, p, k), at |-> p + 1, hung |-> FALSE]

randbelow(rnd, pos, n) == draw(rnd, pos, bit_length(n), 0..(n - 1))

randint(rnd, pos, a, b) ==
    LET d == randbelow(rnd, pos, b - a + 1) IN [d EXCEPT !.r = a + @]

choice(rnd, pos, seq) ==
    LET d == randbelow(rnd, pos, Len(seq)) IN [d EXCEPT !.r = seq[@ + 1]]

\* random.sample(population, k) for a population above setsize, as the
\* source's 100 products are: j = randbelow(n) until j is not selected yet
RECURSIVE sample_selecting(_, _, _, _, _)
sample_selecting(rnd, pos, population, k, selected) ==
    IF k = 0 THEN [r |-> <<>>, at |-> pos, hung |-> FALSE]
    ELSE LET n == Len(population)
             j == draw(rnd, pos, bit_length(n), (0..(n - 1)) \ selected)
             rest == sample_selecting(rnd, j.at, population, k - 1, selected \cup {j.r})
         IN [r |-> <<population[j.r + 1]>> \o rest.r, at |-> rest.at,
             hung |-> j.hung \/ rest.hung]

sample(rnd, pos, population, k) == sample_selecting(rnd, pos, population, k, {})

\* quantity = random.randint(1, 5), once per line
RECURSIVE line_quantities(_, _, _)
line_quantities(rnd, pos, k) ==
    IF k = 0 THEN [r |-> <<>>, at |-> pos, hung |-> FALSE]
    ELSE LET quantity == randint(rnd, pos, 1, MaxQuantity)
             rest == line_quantities(rnd, quantity.at, k - 1)
         IN [r |-> <<quantity.r>> \o rest.r, at |-> rest.at,
             hung |-> quantity.hung \/ rest.hung]

\* random_date() / rand_dt(): the seconds after START_DATE
random_date(rnd, pos) == randint(rnd, pos, 0, DeltaSeconds)

lines_of_sale(sale_id, chosen, qty) ==
    [j \in DOMAIN chosen |->
        [sale_id |-> sale_id, line_number |-> j,
         product_id |-> chosen[j].product_id, quantity |-> qty[j],
         unit_price |-> chosen[j].price,
         line_total |-> chosen[j].price * qty[j]]]

header_of_sale(sale_id, ts, cust, st, emp, lines) ==
    [sale_id |-> sale_id, timestamp |-> ts,
     customer_id |-> cust.customer_id, store_id |-> st.store_id,
     employee_id |-> emp.employee_id,
     total_amount |-> SumSeq([j \in DOMAIN lines |-> lines[j].line_total])]

\* src/sql/generator.py, one iteration of the sales loop, its draws in the
\* order of the source: random_date() is the first
SqlGenSale ==
    /\ Len(sqlgen.sales) < SALES
    /\ LET rnd == seeded.random
           sale_id == Len(sqlgen.sales) + 1
           customer == customers[seeded.numpy[sale_id] + 1]
       IN \E sale_timestamp \in {random_date(rnd, sqlgen.random)} :
          \E store \in {choice(rnd, sale_timestamp.at, stores)} :
          \E employee \in {choice(rnd, store.at, employees_in_store(store.r.store_id))} :
          \E n_lines \in {randint(rnd, employee.at, MIN_LINES, MAX_LINES)} :
          \E products_in_sale \in {sample(rnd, n_lines.at, products, n_lines.r)} :
          \E quantity \in {line_quantities(rnd, products_in_sale.at, n_lines.r)} :
            LET lines == lines_of_sale(sale_id, products_in_sale.r, quantity.r) IN
            /\ ~(sale_timestamp.hung \/ store.hung \/ employee.hung \/ n_lines.hung
                 \/ products_in_sale.hung \/ quantity.hung)
            /\ sqlgen' = [random |-> quantity.at,
                          sales |-> Append(sqlgen.sales,
                              header_of_sale(sale_id, sale_timestamp.r, customer,
                                             store.r, employee.r, lines)),
                          sale_lines |-> sqlgen.sale_lines \o lines]
    /\ UNCHANGED <<seeded, jsongen>>
    /\ UNCHANGED <<genVars, fileVars, mainVars, dbVars, sqlgenVars>>

\* src/json/generator.py, one iteration of the sales loop, its draws in the
\* order of the source: rand_dt() is the last
JsonGenSale ==
    /\ Len(jsongen.sales_hdr) < SALES
    /\ LET rnd == seeded.random
           sale_id == Len(jsongen.sales_hdr) + 1
           cust == customers[seeded.numpy[sale_id] + 1]
       IN \E st \in {choice(rnd, jsongen.random, stores)} :
          \E emp \in {choice(rnd, st.at, employees_in_store(st.r.store_id))} :
          \E n_lines \in {randint(rnd, emp.at, MIN_LINES, MAX_LINES)} :
          \E chosen \in {sample(rnd, n_lines.at, products, n_lines.r)} :
          \E qty \in {line_quantities(rnd, chosen.at, n_lines.r)} :
          \E timestamp \in {random_date(rnd, qty.at)} :
            LET lines == lines_of_sale(sale_id, chosen.r, qty.r) IN
            /\ ~(st.hung \/ emp.hung \/ n_lines.hung \/ chosen.hung \/ qty.hung
                 \/ timestamp.hung)
            /\ jsongen' = [random |-> timestamp.at,
                           sales_hdr |-> Append(jsongen.sales_hdr,
                               header_of_sale(sale_id, timestamp.r, cust, st.r, emp.r, lines)),
                           sale_lines |-> jsongen.sale_lines \o lines]
    /\ UNCHANGED <<seeded, sqlgen>>
    /\ UNCHANGED <<genVars, fileVars, mainVars, dbVars, sqlgenVars>>

InitSeed ==
    /\ gpc = "sales"
    /\ products = [i \in 1..PRODUCTS |->
            [product_id |-> i, name |-> <<"catch_phrase", i>>, price |-> 10 * i,
             category_id |-> categories[(i % CATEGORIES) + 1].category_id]]
    /\ stores = [i \in 1..STORES |->
            [store_id |-> i, name |-> <<"company", i>>, address |-> <<"address", i>>]]
    /\ employees = [i \in 1..EMPLOYEES |->
            [employee_id |-> i, first_name |-> <<"first_name", i>>,
             last_name |-> <<"last_name", i>>, position |-> "Cajero",
             store_id |-> round_robin(i)]]
    /\ customers = [i \in 1..CUSTOMERS |->
            [customer_id |-> i, first_name |-> <<"first_name", 100 + i>>,
             last_name |-> <<"last_name", 100 + i>>, email |-> <<"email", i>>]]
    /\ inventory = <<>>
    /\ sales_hdr = <<>>
    /\ sale_lines = <<>>
    /\ sqlFile = <<>>
    /\ catalogJson = <<>>
    /\ salesJson = <<>>
    /\ csv = NoFile
    /\ BenchmarkIdle
    /\ SqlgenIdle
    /\ \E rnd \in [1..Period -> Words], zipf_indices \in [1..SALES -> 0..(CUSTOMERS - 1)] :
         seeded = [random |-> rnd, numpy |-> zipf_indices]
    /\ sqlgen = [random |-> 0, sales |-> <<>>, sale_lines |-> <<>>]
    /\ jsongen = [random |-> 0, sales_hdr |-> <<>>, sale_lines |-> <<>>]

NextSeed == SqlGenSale \/ JsonGenSale

SpecSeed == InitSeed /\ [][NextSeed]_vars

(***************************************************************************)
(* Properties of the SQL file writer (SpecSql)                             *)
(***************************************************************************)
\* the tables whose write_batches call has returned
Written ==
    IF wpc \in {"COMMIT", "done"} THEN Range(TableNames)
    ELSE IF wpc \in Range(TableNames)
    THEN {TableNames[t] : t \in 1..(IndexOf(TableNames, wpc) - 1)}
    ELSE {}

\* the positions in the file of the INSERT statements of a table
Inserts(file, table) ==
    {i \in DOMAIN file : file[i].kind = "INSERT" /\ file[i].table = table}

InsertsOf(file, table) ==
    SelectSeq(file, LAMBDA st : st.kind = "INSERT" /\ st.table = table)

\* the rows of a table in the file, in file order
RowsInFile(file, table) ==
    LET stmts == InsertsOf(file, table) IN
    Concat([b \in DOMAIN stmts |-> stmts[b].rows])

\* batches splits data into consecutive batches: in order, nothing dropped or
\* repeated, none empty, all of exactly size items but possibly the last
Partitions(batches, data, size) ==
    /\ Concat(batches) = data
    /\ \A b \in DOMAIN batches :
          /\ batches[b] # <<>>
          /\ Len(batches[b]) <= size
          /\ b < Len(batches) => Len(batches[b]) = size
    /\ data = <<>> => batches = <<>>

\* C9: chunks(iterable, size) yields consecutive batches that concatenate
\* to the input in order, each of exactly size items except a possibly shorter
\* non-empty last one, and none for an empty input; write_batches writes one
\* INSERT per batch, so the INSERTs of a table hold each of its rows once, in
\* order, at most BATCH_SIZE rows per statement.
C9_ChunksPartitionInput ==
    \A t \in Range(TableNames) :
        LET stmts == InsertsOf(wfile, t) IN
        /\ t \in Written =>
              /\ Partitions(wbatches[t], wdata[t], wsize)
              /\ wbatches[t] = chunks(wdata[t], wsize)
              /\ Concat([b \in DOMAIN stmts |-> stmts[b].rows]) = wdata[t]
        /\ t = wpc =>
              /\ Concat(wbatches[t]) \o wit = wdata[t]
              /\ \A b \in DOMAIN wbatches[t] :
                    /\ wbatches[t][b] # <<>>
                    /\ Len(wbatches[t][b]) <= wsize
                    /\ (b < Len(wbatches[t]) \/ wit # <<>>) => Len(wbatches[t][b]) = wsize
        /\ stmts = [b \in DOMAIN wbatches[t] |-> build_insert(t, Columns(t), wbatches[t][b])]
        /\ \A b \in DOMAIN stmts : Len(stmts[b].rows) \in 1..BATCH_SIZE

\* a finished file with a table of several batches, the last one short, and
\* an empty table
C9_Witness ==
    /\ wpc = "done"
    /\ \E t \in Range(TableNames) :
          /\ Len(wbatches[t]) >= 2
          /\ Len(wbatches[t][Len(wbatches[t])]) < wsize
          /\ Cardinality(Inserts(wfile, t)) = Len(wbatches[t])
    /\ \E t \in Range(TableNames) : wdata[t] = <<>> /\ Inserts(wfile, t) = {}

\* the tables a table's REFERENCES clauses name
Referenced(table) == {ref[2] : ref \in Schema(lower(table)).ref}

\* C10: the file starts with the DDL, every INSERT into a table comes after
\* that table's CREATE TABLE and after all INSERTs into every table it
\* references, the INSERTs follow the order of the table list, and the one
\* COMMIT is the last statement of the finished file.
C10_FileOrder ==
    /\ wfile # <<>> => SubSeq(wfile, 1, Len(DDL)) = DDL
    /\ \A i \in DOMAIN wfile : wfile[i].kind \in {"CREATE TABLE", "CREATE INDEX"} => i <= Len(DDL)
    /\ \A t \in Range(TableNames) :
          LET into == Inserts(wfile, t) IN
          into # {} =>
              /\ \A i \in into :
                    \E j \in 1..(i - 1) : wfile[j].kind = "CREATE TABLE" /\ wfile[j].table = t
              /\ \A u \in Referenced(t) :
                    /\ \A j \in Inserts(wfile, u) : \A i \in into : j < i
                    /\ RowsInFile(wfile, u) = wdata[u]
              /\ \A u \in Range(TableNames) :
                    IndexOf(TableNames, u) < IndexOf(TableNames, t) =>
                        \A j \in Inserts(wfile, u) : \A i \in into : j < i
    /\ \A i \in DOMAIN wfile : wfile[i].kind = "COMMIT" => (wpc = "done" /\ i = Len(wfile))
    /\ wpc = "done" =>
          /\ wfile[Len(wfile)].kind = "COMMIT"
          /\ \A t \in Range(TableNames) : RowsInFile(wfile, t) = wdata[t]

\* a finished file where referencing and referenced tables have several INSERTs
C10_Witness ==
    /\ wpc = "done"
    /\ Cardinality(Inserts(wfile, "Sale")) >= 2
    /\ Cardinality(Inserts(wfile, "SaleLine")) >= 2
    /\ Cardinality(Inserts(wfile, "Product")) >= 2
    /\ wfile[Len(wfile)].kind = "COMMIT"

(***************************************************************************)
(* Properties of one run of main() (Spec)                                  *)
(***************************************************************************)
Labels == <<"postgres_sql", "postgres_json", "mongo_catalog", "mongo_sales">>

\* C1: main() calls the four load steps once each, one after another in the
\* order of Steps (a step is called only when every step before it has
\* returned), and once all four have returned it writes ingest_times.csv: the
\* header row, then four rows labelled as in Labels, each with the duration
\* the timed wrapper returned for that step; the file is written at no other
\* time.
C1_StepsInOrderThenCsv ==
    /\ calls = SubSeq(Steps, 1, Len(calls))
    /\ [k \in DOMAIN returned |-> returned[k][1]] = SubSeq(Steps, 1, Len(returned))
    /\ \A k \in DOMAIN Steps :
          pc = Steps[k] =>
              /\ Len(returned) = k - 1
              /\ Len(calls) = IF spc = "call" THEN k - 1 ELSE k
    /\ pc \in {"write_csv", "done"} => (calls = Steps /\ Len(returned) = Len(Steps))
    /\ pc = "write_csv" => ENABLED WriteCsv
    /\ pc = "done" =>
          csv = [exists |-> TRUE,
                 rows |-> << <<"step", "duration_seconds">> >>
                          \o [k \in DOMAIN Labels |-> <<Labels[k], returned[k][2]>>]]
    /\ pc # "done" => csv \in {NoFile, StaleCsv}

\* a finished run whose four durations are not all the same
C1_Witness ==
    /\ pc = "done"
    /\ Len(csv.rows) = 5
    /\ csv.rows[3][2] > csv.rows[2][2]
    /\ csv.rows[5][2] # csv.rows[4][2]
    /\ calls = Steps

\* the COPY rows of a table that a run sent, in order
CopyRows(run, table) ==
    LET es == SelectSeq(run, LAMBDA e : e.kind = "COPY" /\ e.table = table)
    IN [i \in DOMAIN es |-> es[i].row]

InsertedRows(run) ==
    SumSeq([i \in DOMAIN run |->
               IF run[i].kind = "INSERT" THEN Len(run[i].rows)
               ELSE IF run[i].kind = "COPY" THEN 1 ELSE 0])

\* C2: each PostgreSQL run commits exactly one transaction, after
\* every statement of the script (every row of the documents) has been sent,
\* and the commit holds all of them; before it no table and no row of the run
\* is committed; a run that returns has committed.
C2_OneCommitPerRun ==
    /\ \A d \in {PG_DB_SQL, PG_DB_JSON} :
          /\ pg[d].commits <= 1
          /\ pg[d].commits = 0 => (pg[d].ctables = {} /\ pg[d].crows = <<>>)
          /\ pg[d].commits = 1 =>
                /\ ~pg[d].tx
                /\ pg[d].crows = pg[d].rows
                /\ pg[d].ctables = {lower(t) : t \in Range(TableNames)}
                /\ Len(pg[d].crows) = InsertedRows(sent[d])
    /\ pg[PG_DB_SQL].commits = 1 =>
          /\ sent[PG_DB_SQL] = sqlFile
          /\ \A i \in DOMAIN sqlFile : sqlFile[i].kind = "COMMIT" <=> i = Len(sqlFile)
    /\ pg[PG_DB_JSON].commits = 1 =>
          /\ lj.phase = "returned"
          /\ lj.si > Len(catalogJson)
          /\ lj.ki > Len(salesJson)
          /\ Len(CopyRows(sent[PG_DB_JSON], "store")) = Len(catalogJson)
          /\ Len(CopyRows(sent[PG_DB_JSON], "sale")) = Len(salesJson)
    /\ Len(returned) >= 1 => pg[PG_DB_SQL].commits = 1
    /\ Len(returned) >= 2 => pg[PG_DB_JSON].commits = 1

\* both runs have returned, each with its one commit holding rows
C2_Witness ==
    /\ Len(returned) >= 2
    /\ pg[PG_DB_SQL].commits = 1
    /\ pg[PG_DB_JSON].commits = 1
    /\ Len(pg[PG_DB_SQL].crows) > Len(pg[PG_DB_JSON].crows)
    /\ pg[PG_DB_JSON].crows # <<>>

\* C3: an error in a load step leaves main() at once: the step that
\* raised is the last one called and is not called again, no later step is
\* called, nothing runs afterwards, and ingest_times.csv is left as it was
\* (not created, not overwritten).
C3_ErrorLeavesMain ==
    /\ [](pc = "crashed" =>
            /\ Len(calls) >= 1
            /\ calls = SubSeq(Steps, 1, Len(calls))
            /\ Len(returned) = Len(calls) - 1
            /\ csv \in {NoFile, StaleCsv})
    /\ [][pc' = "crashed" => (csv' = csv /\ calls' \in {calls, Append(calls, pc)})]_vars
    /\ [][pc # "crashed"]_vars

\* the third step raised after dropping the collection, with no csv file
C3_Witness ==
    /\ pc = "crashed"
    /\ calls = SubSeq(Steps, 1, 3)
    /\ Len(results) = 2
    /\ mongo.stores = <<>>
    /\ csv = NoFile

(***************************************************************************)
(* Properties of load_postgres_from_json (Spec)                            *)
(***************************************************************************)
JsonRun == sent[PG_DB_JSON]

\* C4: in the run of load_postgres_from_json every COPY row comes
\* after the rows it references: for each REFERENCES clause of its table, a
\* row of the referenced table with that key was copied earlier in the run.
C4_CopiedAfterReferenced ==
    \A i \in DOMAIN JsonRun :
        JsonRun[i].kind = "COPY" =>
            \A ref \in Schema(JsonRun[i].table).ref :
                \E j \in 1..(i - 1) :
                    /\ JsonRun[j].kind = "COPY"
                    /\ JsonRun[j].table = lower(ref[2])
                    /\ JsonRun[j].row[ref[3]] = JsonRun[i].row[ref[1]]

\* a returned load that copied rows of all eight tables, two products among them
C4_Witness ==
    /\ lj.phase = "returned"
    /\ \A t \in Range(TableNames) : CopyRows(JsonRun, lower(t)) # <<>>
    /\ Len(CopyRows(JsonRun, "product")) = 2
    /\ Len(CopyRows(JsonRun, "saleline")) = 2

\* a sequence without the later occurrences of its items
RECURSIVE FirstAppearances(_)
FirstAppearances(keys) ==
    IF keys = <<>> THEN <<>>
    ELSE LET front == FirstAppearances(SubSeq(keys, 1, Len(keys) - 1))
             last == keys[Len(keys)]
         IN IF last \in Range(front) THEN front ELSE Append(front, last)

\* the inventory items of the catalog in the order the loader reads them
InventoryItems == Concat([s \in DOMAIN catalogJson |-> catalogJson[s].inventory])

\* the id copied for a key
IdOf(rows, keycol, idcol, key) == (CHOOSE r \in Range(rows) : r[keycol] = key)[idcol]

\* one row per key, keys in order of first appearance, ids 1..k in that order
NumberedByFirstAppearance(rows, keycol, idcol, keys) ==
    /\ [i \in DOMAIN rows |-> rows[i][keycol]] = FirstAppearances(keys)
    /\ \A i \in DOMAIN rows : rows[i][idcol] = i

\* C5: the category, product and customer rows copied so far are one
\* row per distinct category name, product name and email read so far, in
\* order of first appearance and numbered 1..k in that order; every product,
\* inventory and sale row carries the id copied for its key.
C5_IdsByFirstAppearance ==
    LET cats == CopyRows(JsonRun, "category")
        prods == CopyRows(JsonRun, "product")
        custs == CopyRows(JsonRun, "customer")
        invs == CopyRows(JsonRun, "inventory")
        sls == CopyRows(JsonRun, "sale")
        items == SubSeq(InventoryItems, 1, Len(invs))
    IN
    /\ Len(invs) <= Len(InventoryItems)
    /\ Len(sls) <= Len(salesJson)
    /\ NumberedByFirstAppearance(cats, "name", "category_id",
                                 [i \in DOMAIN items |-> items[i].product.category])
    /\ NumberedByFirstAppearance(prods, "name", "product_id",
                                 [i \in DOMAIN items |-> items[i].product.name])
    /\ \E n \in {Len(sls), Min(Len(sls) + 1, Len(salesJson))} :
          NumberedByFirstAppearance(custs, "email", "customer_id",
                                    [k \in 1..n |-> salesJson[k].customer.email])
    /\ \A i \in DOMAIN items :
          /\ invs[i].product_id = IdOf(prods, "name", "product_id", items[i].product.name)
          /\ \E p \in Range(prods) :
                /\ p.name = items[i].product.name
                /\ p.category_id = IdOf(cats, "name", "category_id", items[i].product.category)
    /\ \A k \in DOMAIN sls :
          sls[k].customer_id = IdOf(custs, "email", "customer_id", salesJson[k].customer.email)
    /\ lj.phase \notin {"idle"} /\ pc # "crashed" =>
          /\ \A c \in Range(cats) : lj.category_map[c.name] = c.category_id
          /\ \A r \in Range(prods) : lj.product_map[r.name] = r.product_id
          /\ \A c \in Range(custs) : lj.customers_map[c.email] = c.customer_id
          /\ lj.next_cat = Len(cats) + 1
          /\ lj.next_prod = Len(prods) + 1
          /\ lj.next_cust = Len(custs) + 1

\* a returned load in which a category, a product and an email each occurred twice
C5_Witness ==
    /\ lj.phase = "returned"
    /\ Len(CopyRows(JsonRun, "inventory")) = 2
    /\ Len(CopyRows(JsonRun, "product")) = 1
    /\ Len(CopyRows(JsonRun, "category")) = 1
    /\ Len(CopyRows(JsonRun, "sale")) = 2
    /\ Len(CopyRows(JsonRun, "customer")) = 1

\* the committed rows of a table of the JSON-loaded database
Loaded(table) == SelectSeq(pg[PG_DB_JSON].crows, LAMBDA r : r.tbl = table)

LoadedRow(table, idcol, id) == CHOOSE r \in Range(Loaded(table)) : r[idcol] = id

\* C6: after a committed load of the generated documents every table
\* holds as many rows as the generated dataset, and every loaded sale relates
\* the same store, employee (of the same store), customer and products as the
\* generated sale it was built from.
C6_RoundTrip ==
    pg[PG_DB_JSON].commits = 1 =>
        /\ \A t \in Range(TableNames) : Len(Loaded(lower(t))) = Len(TableData[t])
        /\ \A k \in DOMAIN sales_hdr :
              LET sale == LoadedRow("sale", "sale_id", k)
                  emp == LoadedRow("employee", "employee_id", sale.employee_id)
                  lns == SelectSeq(Loaded("saleline"), LAMBDA r : r.sale_id = k)
              IN
              /\ LoadedRow("store", "store_id", sale.store_id).address
                    = store_by_id(sales_hdr[k].store_id).address
              /\ emp.first_name = emp_by_id(sales_hdr[k].employee_id).first_name
              /\ emp.store_id = sale.store_id
              /\ LoadedRow("customer", "customer_id", sale.customer_id).email
                    = cust_by_id(sales_hdr[k].customer_id).email
              /\ [j \in DOMAIN lns |->
                     LoadedRow("product", "product_id", lns[j].product_id).name]
                    = [j \in DOMAIN lines_by_sale(k) |->
                          prod_by_id(lines_by_sale(k)[j].product_id).name]

\* C7: a committed load holds a sale row for every sale document and
\* a sale line row for every line of every sale document; a load that failed
\* has committed nothing.
C7_NoPartialLoad ==
    /\ pg[PG_DB_JSON].commits = 1 =>
          /\ Len(Loaded("sale")) = Len(salesJson)
          /\ Len(Loaded("saleline")) = SumSeq([k \in DOMAIN salesJson |-> Len(salesJson[k].lines)])
    /\ (pc = "crashed" /\ Len(calls) = 2) =>
          (pg[PG_DB_JSON].crows = <<>> /\ pg[PG_DB_JSON].ctables = {})

\* C8: every generated sale has an employee of its store, every store
\* has an employee to pick once the employees are generated (EMPLOYEES >=
\* STORES), every sale document names an employee of the store document it
\* names, and every sale row copied by the loader carries the id of an employee
\* row copied earlier with the sale row's store_id.
C8_EmployeeOfSaleStore ==
    /\ \A k \in DOMAIN sales_hdr :
          emp_by_id(sales_hdr[k].employee_id).store_id = sales_hdr[k].store_id
    /\ (Len(employees) = EMPLOYEES /\ EMPLOYEES >= STORES) =>
          \A s \in DOMAIN stores : employees_in_store(stores[s].store_id) # <<>>
    /\ \A k \in DOMAIN salesJson :
          \E s \in DOMAIN catalogJson :
              /\ catalogJson[s].store_name = salesJson[k].store.name
              /\ \E e \in Range(catalogJson[s].employees) :
                    /\ e.first_name = salesJson[k].employee.first_name
                    /\ e.last_name = salesJson[k].employee.last_name
    /\ \A i \in DOMAIN JsonRun :
          (JsonRun[i].kind = "COPY" /\ JsonRun[i].table = "sale") =>
              /\ \E j \in 1..(i - 1) :
                    /\ JsonRun[j].kind = "COPY"
                    /\ JsonRun[j].table = "employee"
                    /\ JsonRun[j].row.employee_id = JsonRun[i].row.employee_id
                    /\ JsonRun[j].row.store_id = JsonRun[i].row.store_id
              /\ \A j, h \in 1..(i - 1) :
                    (/\ JsonRun[j].kind = "COPY" /\ JsonRun[j].table = "employee"
                     /\ JsonRun[h].kind = "COPY" /\ JsonRun[h].table = "employee"
                     /\ JsonRun[j].row.employee_id = JsonRun[h].row.employee_id) => j = h

\* a returned load of sales in two stores whose employees have the same name
C8_Witness ==
    /\ lj.phase = "returned"
    /\ Len(CopyRows(JsonRun, "sale")) = 2
    /\ CopyRows(JsonRun, "sale")[1].store_id # CopyRows(JsonRun, "sale")[2].store_id
    /\ CopyRows(JsonRun, "sale")[1].employee_id # CopyRows(JsonRun, "sale")[2].employee_id
    /\ CopyRows(JsonRun, "employee")[1].first_name = CopyRows(JsonRun, "employee")[2].first_name

(***************************************************************************)
(* Properties of the Mongo loads (SpecMongo)                               *)
(***************************************************************************)
\* the documents of a collection without their _id, in insertion order
Stored(coll) == [i \in DOMAIN coll |-> coll[i].doc]

\* every document was inserted by this process, each under its own ObjectId
AllNew(coll) ==
    /\ \A i \in DOMAIN coll : coll[i]._id[1] = "oid"
    /\ \A i, j \in DOMAIN coll : coll[i]._id = coll[j]._id => i = j

\* consecutive slices of at most CHUNK documents, only the last one shorter
InChunks(parts, docs) ==
    /\ Concat(parts) = docs
    /\ \A k \in DOMAIN parts :
          /\ parts[k] # <<>>
          /\ Len(parts[k]) <= CHUNK
          /\ k < Len(parts) => Len(parts[k]) = CHUNK

\* the load step that raised
Raised(step) == pc = "crashed" /\ calls # <<>> /\ calls[Len(calls)] = step

\* what a returned load leaves, and what the sales load has inserted while it
\* runs
MongoLoadReplaces ==
    LET parts == mongo_chunks(salesJson) IN
    /\ Len(returned) >= 3 => (Stored(mongo.stores) = catalogJson /\ AllNew(mongo.stores))
    /\ Len(returned) = 4 => (Stored(mongo.sales) = salesJson /\ AllNew(mongo.sales))
    /\ InChunks(parts, salesJson)
    /\ (pc = "load_mongo_sales" /\ spc = "insert") =>
          /\ mchunk <= Len(parts)
          /\ Stored(mongo.sales) = Concat(SubSeq(parts, 1, mchunk))
          /\ AllNew(mongo.sales)
    /\ (Len(returned) = 4 /\ Stored(mongo.before.sales) = salesJson) =>
          Stored(mongo.sales) = Stored(mongo.before.sales)
    /\ (Len(returned) >= 3 /\ Stored(mongo.before.stores) = catalogJson) =>
          Stored(mongo.stores) = Stored(mongo.before.stores)

\* the part of the chunk after chunk number done that an insert may have kept
KeptOfNext(parts, done, kept) ==
    IF done < Len(parts) THEN SubSeq(parts[done + 1], 1, Min(kept, Len(parts[done + 1])))
    ELSE <<>>

\* C11 (as amended): a returned Mongo load leaves exactly the documents
\* of its file, each once and in file order, whatever the collection held, so
\* a second run leaves what the first left (ObjectIds aside); the sales are
\* inserted in consecutive chunks of at most CHUNK documents.  When an insert
\* raises, the collection holds none of the old documents, the chunks
\* inserted before, and the documents of the failing chunk that the server
\* inserted before the error.
C11_MongoLoadReplacesKeepingPartOfFailedChunk ==
    LET parts == mongo_chunks(salesJson) IN
    /\ MongoLoadReplaces
    /\ (Raised("load_mongo_sales") /\ spc = "insert") =>
          /\ AllNew(mongo.sales)
          /\ \E kept \in 0..CHUNK :
                Stored(mongo.sales)
                    = Concat(SubSeq(parts, 1, mchunk)) \o KeptOfNext(parts, mchunk, kept)
    /\ (Raised("load_mongo_catalog") /\ spc = "insert") =>
          /\ AllNew(mongo.stores)
          /\ \E kept \in 0..Len(catalogJson) : Stored(mongo.stores) = SubSeq(catalogJson, 1, kept)

\* C11 (as stated): the same, but when an insert of chunk k raises the
\* collection holds only chunks 1..k-1 of the new data.
C11_MongoLoadReplacesOnlyWholeChunks ==
    /\ MongoLoadReplaces
    /\ (Raised("load_mongo_sales") /\ spc = "insert") =>
          /\ AllNew(mongo.sales)
          /\ Stored(mongo.sales) = Concat(SubSeq(mongo_chunks(salesJson), 1, mchunk))

\* a second run over what a first run of the same files left, the sales in
\* three chunks with a short last one
C11_Witness ==
    /\ Len(returned) = 4
    /\ mongo.before.sales = EarlierRun(salesJson)
    /\ mongo.before.stores = EarlierRun(catalogJson)
    /\ Len(mongo_chunks(salesJson)) = 3
    /\ Len(mongo_chunks(salesJson)[3]) < CHUNK
    /\ Stored(mongo.sales) = salesJson
    /\ mongo.sales # mongo.before.sales

\* the insert of the second chunk raised after its first document was inserted
C11_WitnessFailedInsert ==
    /\ Raised("load_mongo_sales")
    /\ spc = "insert"
    /\ mchunk = 1
    /\ Len(mongo.sales) = CHUNK + 1
    /\ mongo.before.sales = StaleDocs

(***************************************************************************)
(* Properties of the seeded generators (SpecSeed)                          *)
(***************************************************************************)
\* the lines of sale i in a generator's sale_lines
LinesOf(lines, i) == SelectSeq(lines, LAMBDA l : l.sale_id = i)

\* C12: run with the same seed, the i-th sale of commerce_load.sql and
\* the i-th sale of sales_docs.json have the same store, employee, customer,
\* timestamp, products, quantities and line totals.
C12_SameSeedSameSales ==
    \A i \in 1..SALES :
        (i <= Len(sqlgen.sales) /\ i <= Len(jsongen.sales_hdr)) =>
            /\ sqlgen.sales[i] = jsongen.sales_hdr[i]
            /\ LinesOf(sqlgen.sale_lines, i) = LinesOf(jsongen.sale_lines, i)

====
